---------------------------- MODULE Spec2Model ----------------------------
(***************************************************************************)
(* Model of autoclocker (timecalc.py): the rounding of clock instants,     *)
(* the timetable and summary computation, and the interactive loop of      *)
(* main_withlogin with its command handlers.                               *)
(*                                                                         *)
(* A datetime is the number of seconds since 00:00:00 of day 0; a          *)
(* timedelta is a number of seconds (possibly negative).  Resolutions are  *)
(* whole minutes.                                                          *)
(***************************************************************************)
EXTENDS Integers, Sequences, FiniteSets

VARIABLES
    \* ---- configuration, set by read_config (src/timecalc.py:33-59)
    WORK_HOURS,         \* timedelta: the daily work target
    HOURS_RESOLUTION,   \* timedelta: the clock resolution
    \* ---- main_withlogin (src/timecalc.py:425-460)
    pc,                 \* position in main_withlogin
    session,            \* the session handle: the number of the login that made it
    response,           \* the page held in `response`
    times_in,           \* parsed clock-in datetimes
    times_out,          \* parsed clock-out datetimes
    server_time,        \* parsed server time
    times_dict,         \* the timetable rows
    is_in,              \* summary: currently clocked in
    time_remaining,     \* summary: timedelta left to work
    time_to_out,        \* summary: recommended clock-out, None or Some(datetime)
    time_next_out,      \* next-interval clock-out, None or Some(datetime)
    displayed,          \* the printed timetable: per row, out shown in parentheses
    command,            \* the command read in this iteration ("" before)
    raised,             \* the exception that left main_withlogin ("" if none)
    clock_calls,        \* clock-intent requests posted in this iteration
    scheduler_calls,    \* scheduler requests posted in this iteration
    steps,              \* the calls of this iteration, in order
    logins,             \* login_session calls so far: the latest handle issued
    snapshot_age,       \* "none" | "fetched" | "parsed" | "used": the page since
                        \* the last posted request
    \* ---- round_datetime applied to sampled inputs (SpecRound)
    time_date,          \* the datetime given to round_datetime
    time_resolution,    \* the timedelta given to round_datetime
    datetime_adj,       \* round_datetime(time_date, time_resolution), 0 before
    datetime_adj2,      \* round_datetime of that result, 0 before
    rpc,                \* "idle" | "start" | "once" | "twice"
    \* ---- the scheduler lambda (SpecScheduler),
    \* src/lambda_adp_scheduler/clockout_scheduler.py
    invocation,         \* per running lambda_handler: position, event, parsed
                        \* body, schedule_time, outcome of the service calls, result
    rule,               \* ScheduleExpression of the rule scheduleClockOut, or None
    rule_target,        \* Input of target '1' of the rule, or None
    permission          \* the function adpClockOut holds the statement that
                        \* lets events.amazonaws.com invoke it

config == <<WORK_HOURS, HOURS_RESOLUTION>>

locals == <<times_in, times_out, server_time, times_dict, is_in, time_remaining,
            time_to_out, time_next_out, displayed>>

hist == <<steps, logins, snapshot_age>>

lvars == <<config, pc, session, response, locals, command, raised, clock_calls,
           scheduler_calls, hist>>

rvars == <<time_date, time_resolution, datetime_adj, datetime_adj2, rpc>>

svars == <<invocation, rule, rule_target, permission>>

vars == <<lvars, rvars, svars>>

-----------------------------------------------------------------------------
(* datetime / timedelta helpers *)

\* datetime(day, hour=h, minute=m, second=s) as seconds since day 0, 00:00:00
DT(d, h, m, s) == d * 86400 + h * 3600 + m * 60 + s

\* timedelta(minutes=m)
Minutes(m) == m * 60

Day(t) == t \div 86400
Hour(t) == (t \div 3600) % 24
Minute(t) == (t \div 60) % 60
Second(t) == t % 60

\* the value standing for "datetime(...) raised ValueError"
ValueError == -1

-----------------------------------------------------------------------------
(* round_datetime, src/timecalc.py:257-272 *)

\* Python 3 round(n / d) for integers n >= 0, d > 0: nearest integer, an exact
\* half goes to the even neighbour.
PyRound(n, d) ==
    LET q == n \div d
        rem == n % d
    IN  IF 2 * rem < d THEN q
        ELSE IF 2 * rem > d THEN q + 1
        ELSE IF q % 2 = 0 THEN q ELSE q + 1

\* the same with an exact half going up: what round_datetime would compute
\* if it rounded half-way values to the larger multiple
HalfUpRound(n, d) ==
    LET q == n \div d
        rem == n % d
    IN  IF 2 * rem < d THEN q ELSE q + 1

\* datetime(year, month, day, hour=hour_adj, minute=minute_adj): ValueError
\* unless 0 <= hour <= 23
MakeDatetime(day, hour_adj, minute_adj) ==
    IF hour_adj > 23 THEN ValueError
    ELSE DT(day, hour_adj, minute_adj, 0)

\* round_datetime dropping only the seconds: the instant is cut to its
\* minute and not moved to a multiple of the resolution
round_datetime_to_minute(t, res) ==
    MakeDatetime(Day(t), Hour(t), Minute(t))

round_datetime(t, res) ==
    LET minute_res == res \div 60
        minute_rounded == PyRound(Minute(t), minute_res) * minute_res
        hour_adj == Hour(t) + minute_rounded \div 60
        minute_adj == minute_rounded % 60
    IN  MakeDatetime(Day(t), hour_adj, minute_adj)

-----------------------------------------------------------------------------
(* Optional values and sequence helpers *)

\* Python None / a present value
None == <<>>
Some(x) == <<x>>

RECURSIVE SumDurations(_)
\* sum(times_dict['duration'], timedelta())
SumDurations(rows) ==
    IF rows = <<>> THEN 0
    ELSE rows[1].duration + SumDurations(Tail(rows))

\* [f(e) for e in seq]
MapTimes(seq) == [i \in 1..Len(seq) |-> seq[i].t]

-----------------------------------------------------------------------------
(* parse_response, src/timecalc.py:199-254 *)

(* A page (response.text) is a record                                      *)
(*   empty      : the text is the empty string                             *)
(*   activities : "absent" | "nochild" | "present"   element divActivities *)
(*   login      : "absent" | "nochild" | "children"  element               *)
(*                mainLoginWrapper                                         *)
(*   sdate      : None or Some(server time)    the "var sDate = '...'"     *)
(*   entries    : the In/Out entries of the activity text, document order, *)
(*                each [ev |-> "In" | "Out", t |-> datetime]               *)
(*   ids        : the page defines _custID and _employeeId                 *)
(* The result is [status, times_in, times_out, server_time]; status is     *)
(* "ok", "none" (the function returned None) or the exception raised.      *)

\* class ParseFailure, src/excepts.py:3-14
ParseFailure == "ParseFailure"

\* class SessionExpired: imported from excepts (line 27), raised at line 228
\* and caught at line 433; an exception class of its own, no subclass of
\* ParseFailure
SessionExpired == "SessionExpired"

ParseRaise(exc) ==
    [status |-> exc, times_in |-> <<>>, times_out |-> <<>>, server_time |-> 0]

parse_response(page) ==
    IF page.empty
    THEN \* line 217-219: prints and returns None
         ParseRaise("none")
    ELSE IF page.activities = "absent"
    THEN \* line 224: len(None)
         ParseRaise("TypeError")
    ELSE IF page.activities = "nochild"
    THEN \* line 225-231: an element is true when it has children
         IF page.login = "children" THEN ParseRaise(SessionExpired)
         ELSE ParseRaise(ParseFailure)
    ELSE IF page.sdate = None
    THEN \* line 235-239
         ParseRaise(ParseFailure)
    ELSE LET ins == SelectSeq(page.entries, LAMBDA e : e.ev = "In")
             outs == SelectSeq(page.entries, LAMBDA e : e.ev = "Out")
         IN  IF ins = <<>>
             THEN \* line 245-247
                  [status |-> "ok", times_in |-> <<>>, times_out |-> <<>>,
                   server_time |-> page.sdate[1]]
             ELSE [status |-> "ok", times_in |-> MapTimes(ins),
                   times_out |-> MapTimes(outs), server_time |-> page.sdate[1]]

\* parse_ids, src/timecalc.py:116-131: re.search(...).group(1) on a page
\* without the ids raises AttributeError
parse_ids(page) == IF page.ids THEN "ok" ELSE "AttributeError"

-----------------------------------------------------------------------------
(* calculate_time_table, src/timecalc.py:275-311 *)

(* The result is [err, rows]: err is "" or the exception raised, rows is   *)
(* the timetable as a sequence of [in, out, duration] (the three columns   *)
(* of times_dict zipped); the empty sequence is the empty dict.            *)

\* time_or_next(None), line 300-301
time_or_next(current_time, res) == round_datetime(current_time + res, res)

\* calculate_time_table with the provisional out-instant computed up front,
\* whether or not a row needs it
calculate_time_table_eager(parsed_in, parsed_out, current_time, res) ==
    LET rounded_in == [i \in 1..Len(parsed_in) |-> round_datetime(parsed_in[i], res)]
        rounded_out == [i \in 1..Len(parsed_out) |-> round_datetime(parsed_out[i], res)]
        next_out == time_or_next(current_time, res)
        row(i) == LET o == IF i <= Len(rounded_out) THEN rounded_out[i] ELSE next_out
                  IN  [in |-> rounded_in[i], out |-> o, duration |-> o - rounded_in[i]]
    IN  IF \/ \E i \in 1..Len(parsed_in) : rounded_in[i] = ValueError
           \/ \E i \in 1..Len(parsed_out) : rounded_out[i] = ValueError
           \/ next_out = ValueError
        THEN [err |-> "ValueError", rows |-> <<>>]
        ELSE IF Len(parsed_out) > Len(parsed_in)
        THEN [err |-> "TypeError", rows |-> <<>>]
        ELSE [err |-> "", rows |-> [i \in 1..Len(parsed_in) |-> row(i)]]

calculate_time_table(parsed_in, parsed_out, current_time, res) ==
    LET rounded_in == [i \in 1..Len(parsed_in) |-> round_datetime(parsed_in[i], res)]
        rounded_out == [i \in 1..Len(parsed_out) |-> round_datetime(parsed_out[i], res)]
        next_out == time_or_next(current_time, res)
        row(i) == LET o == IF i <= Len(rounded_out) THEN rounded_out[i] ELSE next_out
                  IN  [in |-> rounded_in[i], out |-> o, duration |-> o - rounded_in[i]]
    IN  IF \/ \E i \in 1..Len(parsed_in) : rounded_in[i] = ValueError
           \/ \E i \in 1..Len(parsed_out) : rounded_out[i] = ValueError
        THEN [err |-> "ValueError", rows |-> <<>>]
        ELSE IF Len(parsed_out) > Len(parsed_in)
        THEN \* zip_longest fills time_in with None: datetime - None
             [err |-> "TypeError", rows |-> <<>>]
        ELSE IF Len(parsed_in) > Len(parsed_out) /\ next_out = ValueError
        THEN [err |-> "ValueError", rows |-> <<>>]
        ELSE [err |-> "", rows |-> [i \in 1..Len(parsed_in) |-> row(i)]]

-----------------------------------------------------------------------------
(* calculate_summary, src/timecalc.py:345-377 *)

\* calculate_summary recommending last in-instant + time_remaining
calculate_summary_from_in(rows, current_time, work_hours) ==
    IF rows = <<>>
    THEN [is_in |-> FALSE, time_remaining |-> work_hours, time_to_out |-> None]
    ELSE LET remaining == work_hours - SumDurations(rows)
             last_out == rows[Len(rows)].out
         IN  [is_in |-> last_out > current_time,
              time_remaining |-> remaining,
              time_to_out |-> IF last_out > current_time
                              THEN Some(rows[Len(rows)].in + remaining)
                              ELSE None]

\* calculate_summary with the remaining time clamped at zero
calculate_summary_clamped(rows, current_time, work_hours) ==
    IF rows = <<>>
    THEN [is_in |-> FALSE, time_remaining |-> work_hours, time_to_out |-> None]
    ELSE LET raw == work_hours - SumDurations(rows)
             remaining == IF raw < 0 THEN 0 ELSE raw
             last_out == rows[Len(rows)].out
         IN  [is_in |-> last_out > current_time,
              time_remaining |-> remaining,
              time_to_out |-> IF last_out > current_time
                              THEN Some(last_out + remaining)
                              ELSE None]

\* calculate_summary recommending the current time plus the remaining time
calculate_summary_from_now(rows, current_time, work_hours) ==
    IF rows = <<>>
    THEN [is_in |-> FALSE, time_remaining |-> work_hours, time_to_out |-> None]
    ELSE LET remaining == work_hours - SumDurations(rows)
             last_out == rows[Len(rows)].out
         IN  [is_in |-> last_out > current_time,
              time_remaining |-> remaining,
              time_to_out |-> IF last_out > current_time
                              THEN Some(current_time + remaining)
                              ELSE None]

calculate_summary(rows, current_time, work_hours) ==
    IF rows = <<>>
    THEN [is_in |-> FALSE, time_remaining |-> work_hours, time_to_out |-> None]
    ELSE LET remaining == work_hours - SumDurations(rows)
             last_out == rows[Len(rows)].out
         IN  [is_in |-> last_out > current_time,
              time_remaining |-> remaining,
              time_to_out |-> IF last_out > current_time
                              THEN Some(last_out + remaining)
                              ELSE None]

-----------------------------------------------------------------------------
(* display_clocktable, src/timecalc.py:324-342 *)

\* per printed row, whether the clock-out and the hours are put in
\* parentheses (line 336: plain when time_out < current_time); nothing is
\* printed for the empty dict
display_clocktable(rows, current_time) ==
    [i \in 1..Len(rows) |-> ~(rows[i].out < current_time)]

-----------------------------------------------------------------------------
(* The pages the portal serves, bounded *)

\* the most In/Out entries on a page
MaxEvents == 3
\* the most logins in one run of main_withlogin
MaxLogins == 3

\* default configuration, src/timecalc.py:33-34
DefaultWorkHours == 8
DefaultResolution == 15

WorkHoursChoices == {DefaultWorkHours * 3600}
ResolutionChoices == {Minutes(DefaultResolution), Minutes(30)}

EventTimes ==
    {DT(0, 9, 0, 0), DT(0, 9, 45, 0), DT(0, 12, 0, 0), DT(0, 12, 8, 0),
     DT(0, 13, 0, 0), DT(0, 23, 53, 0)}

NowTimes ==
    {DT(0, 9, 8, 30), DT(0, 9, 45, 0), DT(0, 12, 9, 0), DT(0, 12, 34, 56),
     DT(0, 14, 10, 0), DT(0, 17, 30, 0), DT(0, 23, 40, 0)}

Entries == [ev : {"In", "Out"}, t : EventTimes]

\* activity lists: at most MaxEvents entries, oldest first
EventSeqs ==
    UNION {{sq \in [1..n -> Entries] :
                \A i \in 1..(n - 1) : sq[i].t < sq[i + 1].t} : n \in 0..MaxEvents}

ActivityPage(sq, now) ==
    [empty |-> FALSE, activities |-> "present", login |-> "absent",
     sdate |-> Some(now), entries |-> sq, ids |-> TRUE]

EmptyPage ==
    [empty |-> TRUE, activities |-> "absent", login |-> "absent",
     sdate |-> None, entries |-> <<>>, ids |-> FALSE]

\* pages without a usable activity list: the login form (its wrapper with or
\* without child elements, the activity container missing or empty), an
\* unrecognised page, a page without the server time, a page without ids
OtherPages ==
    {EmptyPage}
    \cup {[empty |-> FALSE, activities |-> a, login |-> l, sdate |-> None,
           entries |-> <<>>, ids |-> FALSE] :
            a \in {"absent", "nochild"}, l \in {"absent", "nochild", "children"}}
    \cup {[empty |-> FALSE, activities |-> "present", login |-> "absent",
           sdate |-> None, entries |-> <<>>, ids |-> TRUE],
          [empty |-> FALSE, activities |-> "present", login |-> "absent",
           sdate |-> Some(DT(0, 9, 8, 30)), entries |-> <<>>, ids |-> FALSE]}

Pages == {ActivityPage(sq, now) : sq \in EventSeqs, now \in NowTimes} \cup OtherPages

\* what a login whose response is overwritten before it is read (line 428,
\* line 456) may return: the login form again or the application page
LoginPages ==
    {[empty |-> FALSE, activities |-> "absent", login |-> "children", sdate |-> None,
      entries |-> <<>>, ids |-> FALSE],
     ActivityPage(<<>>, DT(0, 9, 8, 30))}

-----------------------------------------------------------------------------
(* main_withlogin, src/timecalc.py:425-460 *)

\* the locals of the loop body before they are assigned in an iteration
ClearLocals ==
    /\ times_in' = <<>>
    /\ times_out' = <<>>
    /\ server_time' = 0
    /\ times_dict' = <<>>
    /\ is_in' = FALSE
    /\ time_remaining' = 0
    /\ time_to_out' = None
    /\ time_next_out' = None
    /\ displayed' = <<>>

\* the lambda_handler invocations that may run at the same time
Invocations == {"a", "b"}

\* an invocation that has not been made
NoInvocation ==
    [pc |-> "idle",
     event |-> [httpMethod |-> "", body |-> <<>>],
     body |-> [ScheduleTime |-> 0, UserId |-> "", Key |-> "", complete |-> FALSE],
     schedule_time |-> 0, FailedEntryCount |-> 0, skipped |-> FALSE,
     result |-> ""]

\* the scheduler lambda is not running and the rule does not exist
SchedulerIdle ==
    /\ invocation = [p \in Invocations |-> NoInvocation]
    /\ rule = None
    /\ rule_target = None
    /\ permission = FALSE

RoundIdle ==
    /\ time_date = 0
    /\ time_resolution = 0
    /\ datetime_adj = 0
    /\ datetime_adj2 = 0
    /\ rpc = "idle"

\* one call of the iteration: the function called, its outcome (the result
\* of parse_response, the token read by input, for a posted request the
\* command that posted it) and the session handle it was given or, for
\* login_session, returned
Step(call, result, sess) == [call |-> call, result |-> result, session |-> sess]

\* after read_config (line 427)
Init ==
    /\ WORK_HOURS \in WorkHoursChoices
    /\ HOURS_RESOLUTION \in ResolutionChoices
    /\ pc = "login"
    /\ session = 0
    /\ response = EmptyPage
    /\ times_in = <<>>
    /\ times_out = <<>>
    /\ server_time = 0
    /\ times_dict = <<>>
    /\ is_in = FALSE
    /\ time_remaining = 0
    /\ time_to_out = None
    /\ time_next_out = None
    /\ displayed = <<>>
    /\ command = ""
    /\ raised = ""
    /\ clock_calls = <<>>
    /\ scheduler_calls = <<>>
    /\ steps = <<>>
    /\ logins = 0
    /\ snapshot_age = "none"
    /\ RoundIdle
    /\ SchedulerIdle

\* line 428: (session, response) = login_session(username, password), before
\* the loop is entered
Login ==
    /\ pc = "login"
    /\ logins' = logins + 1
    /\ session' = logins + 1
    /\ response' \in LoginPages
    /\ pc' = "refresh"
    /\ UNCHANGED <<config, locals, command, raised, clock_calls, scheduler_calls,
                   steps, snapshot_age, rvars, svars>>

\* line 430: response = refresh_session(session)
Refresh ==
    /\ pc = "refresh"
    /\ response' \in Pages
    /\ steps' = Append(steps, Step("refresh_session", "", session))
    /\ snapshot_age' = "fetched"
    /\ pc' = "parse"
    /\ UNCHANGED <<config, session, locals, command, raised, clock_calls,
                   scheduler_calls, logins, rvars, svars>>

\* the assignment (times_in, times_out, server_time) = parse_response(...)
\* when parse_response returned a tuple
AssignParsed(p) ==
    /\ times_in' = p.times_in
    /\ times_out' = p.times_out
    /\ server_time' = p.server_time
    /\ UNCHANGED <<times_dict, is_in, time_remaining, time_to_out, time_next_out,
                   displayed>>

\* the exception that leaves lines 432 / 436 for a parse result that is not
\* a tuple: unpacking None is a TypeError
ParseException(p) == IF p.status = "none" THEN "TypeError" ELSE p.status

\* parse_response(response.text) was called and ended with `result`
Parsed(result) ==
    steps' = Append(steps, Step("parse_response", result, session))

\* line 432, parse_response returns
ParseOk ==
    /\ pc = "parse"
    /\ LET p == parse_response(response)
       IN  /\ p.status = "ok"
           /\ AssignParsed(p)
    /\ Parsed("ok")
    /\ snapshot_age' = "parsed"
    /\ pc' = "compute"
    /\ UNCHANGED <<config, session, response, command, raised, clock_calls,
                   scheduler_calls, logins, rvars, svars>>

\* line 432-434, parse_response raises SessionExpired
ParseExpired ==
    /\ pc = "parse"
    /\ parse_response(response).status = SessionExpired
    /\ Parsed(SessionExpired)
    /\ pc' = "relogin"
    /\ UNCHANGED <<config, session, response, locals, command, raised, clock_calls,
                   scheduler_calls, logins, snapshot_age, rvars, svars>>

\* a failed parse ending the loop by a plain return instead of propagating
ParseReturns ==
    /\ pc = "parse"
    /\ parse_response(response).status \notin {"ok", SessionExpired}
    /\ raised' = ParseException(parse_response(response))
    /\ Parsed(ParseException(parse_response(response)))
    /\ pc' = "done"
    /\ UNCHANGED <<config, session, response, locals, command, clock_calls,
                   scheduler_calls, logins, snapshot_age, rvars, svars>>

\* line 432, any other exception propagates out of main_withlogin
ParseRaises ==
    /\ pc = "parse"
    /\ parse_response(response).status \notin {"ok", SessionExpired}
    /\ raised' = ParseException(parse_response(response))
    /\ Parsed(ParseException(parse_response(response)))
    /\ pc' = "raised"
    /\ UNCHANGED <<config, session, response, locals, command, clock_calls,
                   scheduler_calls, logins, snapshot_age, rvars, svars>>

\* the re-login of line 435 keeping the expired session: only the response
\* of login_session is taken
ReloginKeepsSession ==
    /\ pc = "relogin"
    /\ logins < MaxLogins
    /\ logins' = logins + 1
    /\ response' \in Pages
    /\ steps' = Append(steps, Step("login_session", "", logins + 1))
    /\ snapshot_age' = "fetched"
    /\ pc' = "reparse"
    /\ UNCHANGED <<config, session, locals, command, raised, clock_calls,
                   scheduler_calls, rvars, svars>>

\* line 435: (session, response) = login_session(username, password)
Relogin ==
    /\ pc = "relogin"
    /\ logins < MaxLogins
    /\ logins' = logins + 1
    /\ session' = logins + 1
    /\ response' \in Pages
    /\ steps' = Append(steps, Step("login_session", "", logins + 1))
    /\ snapshot_age' = "fetched"
    /\ pc' = "reparse"
    /\ UNCHANGED <<config, locals, command, raised, clock_calls, scheduler_calls, rvars, svars>>

\* line 436, parse_response returns
ReparseOk ==
    /\ pc = "reparse"
    /\ LET p == parse_response(response)
       IN  /\ p.status = "ok"
           /\ AssignParsed(p)
    /\ Parsed("ok")
    /\ snapshot_age' = "parsed"
    /\ pc' = "compute"
    /\ UNCHANGED <<config, session, response, command, raised, clock_calls,
                   scheduler_calls, logins, rvars, svars>>

\* the second parse_response retried like the first: SessionExpired leads to
\* another login instead of propagating
ReparseRetries ==
    /\ pc = "reparse"
    /\ parse_response(response).status # "ok"
    /\ Parsed(ParseException(parse_response(response)))
    /\ IF parse_response(response).status = SessionExpired
       THEN raised' = raised /\ pc' = "relogin"
       ELSE raised' = ParseException(parse_response(response)) /\ pc' = "raised"
    /\ UNCHANGED <<config, session, response, locals, command, clock_calls,
                   scheduler_calls, logins, snapshot_age, rvars, svars>>

\* line 436, every exception propagates, SessionExpired included
ReparseRaises ==
    /\ pc = "reparse"
    /\ parse_response(response).status # "ok"
    /\ raised' = ParseException(parse_response(response))
    /\ Parsed(ParseException(parse_response(response)))
    /\ pc' = "raised"
    /\ UNCHANGED <<config, session, response, locals, command, clock_calls,
                   scheduler_calls, logins, snapshot_age, rvars, svars>>

\* lines 437-444: timetable, its display, summary, time_next_out, parse_ids
Summarize ==
    /\ pc = "compute"
    /\ LET tt == calculate_time_table(times_in, times_out, server_time, HOURS_RESOLUTION)
           sm == calculate_summary(tt.rows, server_time, WORK_HOURS)
       IN  IF tt.err # ""
           THEN /\ raised' = tt.err
                /\ pc' = "raised"
                /\ UNCHANGED <<times_dict, is_in, time_remaining, time_to_out,
                               time_next_out, displayed>>
           ELSE /\ times_dict' = tt.rows
                /\ displayed' = display_clocktable(tt.rows, server_time)
                /\ is_in' = sm.is_in
                /\ time_remaining' = sm.time_remaining
                /\ time_to_out' = sm.time_to_out
                /\ time_next_out' = IF tt.rows # <<>>
                                    THEN Some(tt.rows[Len(tt.rows)].out)
                                    ELSE None
                /\ IF parse_ids(response) = "ok"
                   THEN raised' = raised /\ pc' = "prompt"
                   ELSE raised' = parse_ids(response) /\ pc' = "raised"
    /\ UNCHANGED <<config, session, response, times_in, times_out, server_time,
                   command, clock_calls, scheduler_calls, hist, rvars, svars>>

-----------------------------------------------------------------------------
(* Command handlers, src/timecalc.py:134-162, 463-485 *)

\* clock_inout posting the intent a second time when the first response
\* lacks 'Operation Successful'
clock_inout_retrying(sess, event, success) ==
    IF success
    THEN <<[session |-> sess, sEvent |-> event, marker |-> TRUE,
            printed |-> "clocked"]>>
    ELSE <<[session |-> sess, sEvent |-> event, marker |-> FALSE,
            printed |-> "error"],
           [session |-> sess, sEvent |-> event, marker |-> FALSE,
            printed |-> "error"]>>

\* clock_inout (line 134-162): one POST of the intent with the session;
\* `success` is whether the response text holds 'Operation Successful'
\* (marker), and the function prints 'You have clocked ...' or 'Error
\* clocking ...' accordingly
clock_inout(sess, event, success) ==
    <<[session |-> sess, sEvent |-> event, marker |-> success,
       printed |-> IF success THEN "clocked" ELSE "error"]>>

\* handle_in posting the clock-in whether or not the user is clocked in
handle_in_unchecked(sess, clocked_in, success) ==
    clock_inout(sess, "IN", success)

\* handle_in (line 463-467): the requests it posts
handle_in(sess, clocked_in, success) ==
    IF clocked_in THEN <<>> ELSE clock_inout(sess, "IN", success)

\* handle_out (line 470-474): the requests it posts
handle_out(sess, clocked_in, success) ==
    IF ~clocked_in THEN <<>> ELSE clock_inout(sess, "OUT", success)

\* scheduler_client.schedule (src/aws_adp_client/scheduler_client.py:39-51):
\* the content posted to the scheduler endpoint
schedule(out_time) ==
    [exact_remaining |-> out_time, ScheduleTime |-> out_time \div 60]

\* handle_auto (line 477-485): the scheduler requests it posts; key_saved is
\* whether awsconfig.ini holds the user's key and the AWS settings
\* (scheduler_client.py:86-88 and 67 raise KeyError before any request
\* otherwise)
handle_auto(target, current_time, clocked_in, key_saved) ==
    IF ~clocked_in THEN <<>>
    ELSE IF ~key_saved THEN <<>>
    ELSE <<schedule(target[1] - current_time)>>

\* what the scheduler endpoint may answer to the POST of
\* scheduler_client.py:48: the HTTP status, and a body that is no JSON, JSON
\* without 'ScheduleTime', JSON whose 'ScheduleTime' is not in the format
\* '%Y-%m-%dT%H:%M:%S', or JSON with the scheduled time
SchedulerAnswers ==
    [status : {200, 500},
     body : {"not_json", "no_schedule_time", "other_format", "schedule_time"}]

\* execute_saved_scheduler (scheduler_client.py:73-89) with execute_scheduler
\* (line 54-70) and schedule (line 39-51): whether the request was sent, and
\* the exception raised ("" when the scheduled time is returned).  Without
\* the saved key (or the AWS configuration) KeyError is raised before any
\* request.  encoding_accepted is whether json.loads of the running Python
\* takes the keyword `encoding` of line 50 (up to 3.8) or raises TypeError
\* for it (from 3.9).
execute_saved_scheduler(key_saved, answer, encoding_accepted) ==
    IF ~key_saved THEN [sent |-> FALSE, raised |-> "KeyError"]
    ELSE [sent |-> TRUE,
          raised |-> IF answer.status # 200 THEN "HTTPError"
                     ELSE IF ~encoding_accepted THEN "TypeError"
                     ELSE IF answer.body = "not_json" THEN "JSONDecodeError"
                     ELSE IF answer.body = "no_schedule_time" THEN "KeyError"
                     ELSE IF answer.body = "other_format" THEN "ValueError"
                     ELSE ""]

\* the outcomes of the scheduler round trip
SchedulerOutcomes ==
    {execute_saved_scheduler(key_saved, answer, encoding_accepted) :
        key_saved \in BOOLEAN, answer \in SchedulerAnswers,
        encoding_accepted \in BOOLEAN}

\* line 445: command = input(...); the handler then posted `calls` through
\* the function `call`
AfterCommand(cmd, call, calls) ==
    /\ command' = cmd
    /\ steps' = Append(steps, Step("input", cmd, session))
                \o [i \in 1..Len(calls) |-> Step(call, cmd, session)]
    /\ snapshot_age' = IF calls # <<>> THEN "used" ELSE snapshot_age
    /\ UNCHANGED <<config, locals, logins, rvars, svars>>

\* command 'in' (line 450, 460)
CmdIn ==
    /\ pc = "prompt"
    /\ \E success \in BOOLEAN :
           clock_calls' = handle_in(session, is_in, success)
    /\ pc' = "dispatched"
    /\ AfterCommand("in", "clock_inout", clock_calls')
    /\ UNCHANGED <<session, response, raised, scheduler_calls>>

\* command 'out' (line 451, 460)
CmdOut ==
    /\ pc = "prompt"
    /\ \E success \in BOOLEAN :
           clock_calls' = handle_out(session, is_in, success)
    /\ pc' = "dispatched"
    /\ AfterCommand("out", "clock_inout", clock_calls')
    /\ UNCHANGED <<session, response, raised, scheduler_calls>>

\* handle_auto called with `target` (line 452-453, 460)
DoAuto(cmd, target) ==
    /\ pc = "prompt"
    /\ \E outcome \in SchedulerOutcomes :
        /\ scheduler_calls' = handle_auto(target, server_time, is_in, outcome.sent)
        /\ IF is_in /\ outcome.raised # ""
           THEN raised' = outcome.raised /\ pc' = "raised"
           ELSE raised' = raised /\ pc' = "dispatched"
    /\ AfterCommand(cmd, "schedule", scheduler_calls')
    /\ UNCHANGED <<session, response, clock_calls>>

\* command 'auto': the recommended clock-out
CmdAuto == DoAuto("auto", time_to_out)

\* command 'next': the next-interval clock-out
CmdNext == DoAuto("next", time_next_out)

\* command 'r' logging in without taking the new session
CmdRKeepsSession ==
    /\ pc = "prompt"
    /\ logins < MaxLogins
    /\ logins' = logins + 1
    /\ response' \in LoginPages
    /\ command' = "r"
    /\ steps' = steps \o <<Step("input", "r", session),
                           Step("login_session", "", logins + 1)>>
    /\ pc' = "dispatched"
    /\ UNCHANGED <<config, session, locals, raised, clock_calls, scheduler_calls,
                   snapshot_age, rvars, svars>>

\* command 'r' (line 455-457): login again and continue
CmdR ==
    /\ pc = "prompt"
    /\ logins < MaxLogins
    /\ logins' = logins + 1
    /\ session' = logins + 1
    /\ response' \in LoginPages
    /\ command' = "r"
    /\ steps' = steps \o <<Step("input", "r", session),
                           Step("login_session", "", logins + 1)>>
    /\ pc' = "dispatched"
    /\ UNCHANGED <<config, locals, raised, clock_calls, scheduler_calls,
                   snapshot_age, rvars, svars>>

\* any other token (line 458-459): return
CmdExit ==
    /\ pc = "prompt"
    /\ pc' = "done"
    /\ AfterCommand("exit", "", <<>>)
    /\ UNCHANGED <<session, response, raised, clock_calls, scheduler_calls>>

\* the loop going back to the prompt with the snapshot of the finished
\* iteration, without a refresh and a parse
LoopBackToPrompt ==
    /\ pc = "dispatched"
    /\ pc' = "prompt"
    /\ command' = ""
    /\ clock_calls' = <<>>
    /\ scheduler_calls' = <<>>
    /\ steps' = <<>>
    /\ UNCHANGED <<config, session, response, locals, raised, logins,
                   snapshot_age, rvars, svars>>

\* line 429: back to the top of `while True` after a handler returned or
\* after `continue`; the locals of the finished iteration, the page and the
\* record of its requests are dropped (every one is assigned again before
\* it is read)
LoopBack ==
    /\ pc = "dispatched"
    /\ pc' = "refresh"
    /\ response' = EmptyPage
    /\ ClearLocals
    /\ command' = ""
    /\ clock_calls' = <<>>
    /\ scheduler_calls' = <<>>
    /\ steps' = <<>>
    /\ UNCHANGED <<config, session, raised, logins, snapshot_age, rvars, svars>>

Next ==
    \/ Login
    \/ Refresh
    \/ ParseOk
    \/ ParseExpired
    \/ ParseRaises
    \/ Relogin
    \/ ReparseOk
    \/ ReparseRaises
    \/ Summarize
    \/ CmdIn
    \/ CmdOut
    \/ CmdAuto
    \/ CmdNext
    \/ CmdR
    \/ CmdExit
    \/ LoopBack

Spec == Init /\ [][Next]_vars

-----------------------------------------------------------------------------
(* SpecRound: round_datetime on sampled instants and resolutions *)

\* resolutions in minutes: the default 15, other divisors of 60, and two
\* values that do not divide 60
RoundResolutions == {1, 5, 9, 10, 15, 20, 30, 45, 60}
RoundHours == {8, 23}
RoundSeconds == {0, 59}

LoopIdle ==
    /\ WORK_HOURS = 0
    /\ HOURS_RESOLUTION = 0
    /\ pc = "idle"
    /\ session = 0
    /\ response = EmptyPage
    /\ times_in = <<>>
    /\ times_out = <<>>
    /\ server_time = 0
    /\ times_dict = <<>>
    /\ is_in = FALSE
    /\ time_remaining = 0
    /\ time_to_out = None
    /\ time_next_out = None
    /\ displayed = <<>>
    /\ command = ""
    /\ raised = ""
    /\ clock_calls = <<>>
    /\ scheduler_calls = <<>>
    /\ steps = <<>>
    /\ logins = 0
    /\ snapshot_age = "none"

RoundInit ==
    /\ LoopIdle
    /\ SchedulerIdle
    /\ time_date \in {DT(0, h, m, s) : h \in RoundHours, m \in 0..59, s \in RoundSeconds}
    /\ time_resolution \in {Minutes(r) : r \in RoundResolutions}
    /\ datetime_adj = 0
    /\ datetime_adj2 = 0
    /\ rpc = "start"

\* datetime_adj = round_datetime(time_date, time_resolution)
RoundOnce ==
    /\ rpc = "start"
    /\ datetime_adj' = round_datetime(time_date, time_resolution)
    /\ rpc' = "once"
    /\ UNCHANGED <<lvars, svars, time_date, time_resolution, datetime_adj2>>

\* round_datetime(round_datetime(t, r), r): the exception of the inner call
\* propagates
RoundTwice ==
    /\ rpc = "once"
    /\ datetime_adj2' = IF datetime_adj = ValueError THEN ValueError
                        ELSE round_datetime(datetime_adj, time_resolution)
    /\ rpc' = "twice"
    /\ UNCHANGED <<lvars, svars, time_date, time_resolution, datetime_adj>>

RoundNext == RoundOnce \/ RoundTwice

SpecRound == RoundInit /\ [][RoundNext]_vars

-----------------------------------------------------------------------------
(* SpecScheduler: the scheduler lambda,                                    *)
(* src/lambda_adp_scheduler/clockout_scheduler.py, invoked concurrently    *)

\* make_cronstr (line 22-37): the minute, hour and date fields of the
\* datetime; its seconds are dropped
make_cronstr(time) ==
    [minute |-> Minute(time), hour |-> Hour(time), day |-> Day(time)]

\* the request bodies: minutes from now, user and the user's key; a body is
\* complete when it holds all three keys
ScheduleMinutes == {5, 90}
SchedulerUsers == {"u1", "u2"}
KeyOf(u) == IF u = "u1" THEN "k1" ELSE "k2"

Bodies ==
    [ScheduleTime : ScheduleMinutes, UserId : SchedulerUsers, Key : {"k1", "k2"},
     complete : BOOLEAN] \ {b \in [ScheduleTime : ScheduleMinutes,
                                  UserId : SchedulerUsers, Key : {"k1", "k2"},
                                  complete : BOOLEAN] : b.Key # KeyOf(b.UserId)}

\* what datetime.utcnow() may return (line 103)
UtcNows == {DT(0, 17, 30, 10), DT(0, 17, 31, 5)}

\* target_input, line 105-108
TargetInput(body) == [UserId |-> body.UserId, Key |-> body.Key]

\* line 109: event['body'] = json.dumps(target_input); the other entries of
\* the event stay
TargetEvent(event, body) == [event EXCEPT !.body = TargetInput(body)]

\* the event of an API Gateway request with body b
Events(b) == [httpMethod |-> "POST", body |-> b]

\* the invocations have been started and none has run a statement; the
\* permission may be there from an earlier request
SchedulerInit ==
    /\ LoopIdle
    /\ RoundIdle
    /\ invocation \in [Invocations ->
                          {[pc |-> "start", event |-> Events(b), body |-> b,
                            schedule_time |-> 0, FailedEntryCount |-> 0,
                            skipped |-> FALSE, result |-> ""] : b \in Bodies}]
    /\ rule = None
    /\ rule_target = None
    /\ permission \in BOOLEAN

\* line 95-101: a body without one of the keys; respond(ex) reads
\* ex.message, which a KeyError does not have
BadRequest(p) ==
    /\ invocation[p].pc = "start"
    /\ ~invocation[p].body.complete
    /\ invocation' = [invocation EXCEPT ![p].pc = "done",
                                        ![p].result = "AttributeError"]
    /\ UNCHANGED <<lvars, rvars, rule, rule_target, permission>>

\* line 102-104 and schedule_event (line 40-46): put_rule on the rule
\* scheduleClockOut
PutRule(p) ==
    /\ invocation[p].pc = "start"
    /\ invocation[p].body.complete
    /\ \E now \in UtcNows :
        LET schedule_time == now + Minutes(invocation[p].body.ScheduleTime)
        IN  /\ rule' = Some(make_cronstr(schedule_time))
            /\ invocation' = [invocation EXCEPT ![p].pc = "put_rule",
                                                ![p].schedule_time = schedule_time]
    /\ UNCHANGED <<lvars, rvars, rule_target, permission>>

\* line 105-110 and set_target up to line 60: the event's body is replaced
\* by target_input and put_targets stores the whole event as Input of
\* target '1' of the rule; with a failed entry the target is not written
PutTargets(p) ==
    /\ invocation[p].pc = "put_rule"
    /\ \E failed \in {0, 1} :
        LET event == TargetEvent(invocation[p].event, invocation[p].body)
        IN  /\ rule_target' = IF failed = 0 THEN Some(event) ELSE rule_target
            /\ invocation' = [invocation EXCEPT ![p].pc = "put_targets",
                                                ![p].event = event,
                                                ![p].FailedEntryCount = failed]
    /\ UNCHANGED <<lvars, rvars, rule, permission>>

\* set_target, line 61-71: add_permission on the function adpClockOut; it
\* raises when the statement is already there or the call fails otherwise,
\* and any exception is printed as 'already exists' and dropped
AddPermission(p) ==
    /\ invocation[p].pc = "put_targets"
    /\ \E granted \in BOOLEAN :
        LET raises == permission \/ ~granted
        IN  /\ permission' = (permission \/ ~raises)
            /\ invocation' = [invocation EXCEPT ![p].pc = "add_permission",
                                                ![p].skipped = raises]
    /\ UNCHANGED <<lvars, rvars, rule, rule_target>>

\* line 72 and 111-113: set_target returns FailedEntryCount == 0 and the
\* handler responds; respond(Exception(...)) reads a message attribute that
\* does not exist
Respond(p) ==
    /\ invocation[p].pc = "add_permission"
    /\ invocation' = [invocation EXCEPT
                         ![p].pc = "done",
                         ![p].result = IF invocation[p].FailedEntryCount = 0
                                       THEN "200" ELSE "AttributeError"]
    /\ UNCHANGED <<lvars, rvars, rule, rule_target, permission>>

SchedulerNext ==
    \E p \in Invocations :
        \/ BadRequest(p)
        \/ PutRule(p)
        \/ PutTargets(p)
        \/ AddPermission(p)
        \/ Respond(p)

SpecScheduler == SchedulerInit /\ [][SchedulerNext]_vars

-----------------------------------------------------------------------------
(* Properties *)

\* the summary of the current iteration has been computed (line 440-444 done)
Summarized == pc \in {"prompt", "dispatched", "done"}

\* the snapshot has an open trailing interval: one more clock-in than clock-outs
OpenInterval == Len(times_out) = Len(times_in) - 1

\* the snapshot is one the portal produces for a working day: Ins and Outs
\* alternate in time, at most the last interval is open, nothing is dated
\* after the server time
Chronological ==
    /\ Len(times_out) \in {Len(times_in), Len(times_in) - 1}
    /\ \A i \in 1..Len(times_out) : times_in[i] <= times_out[i]
    /\ \A i \in 1..(Len(times_in) - 1) : times_out[i] <= times_in[i + 1]
    /\ \A i \in 1..Len(times_in) : times_in[i] <= server_time
    /\ \A i \in 1..Len(times_out) : times_out[i] <= server_time

LastRow == times_dict[Len(times_dict)]

\* C1: the summary reports isCurrentlyClockedIn exactly when the snapshot has
\* an open interval; a committed clock-out that rounds to an instant after
\* server-now is not reported as clocked in.
C1_ClockedInIffOpen ==
    (Summarized /\ Chronological) => (is_in <=> OpenInterval)

\* C2 as claimed: when clocked in the recommended clock-out is the last
\* in-instant plus timeRemaining, and None when not clocked in.
C2_RecommendedFromLastIn ==
    (Summarized /\ Chronological /\ times_dict # <<>>) =>
        time_to_out = IF is_in THEN Some(LastRow.in + time_remaining) ELSE None

C2_ExampleSnapshot ==
    /\ times_in = <<DT(0, 9, 0, 0), DT(0, 13, 0, 0)>>
    /\ times_out = <<DT(0, 12, 0, 0)>>
    /\ server_time = DT(0, 14, 10, 0)
    /\ HOURS_RESOLUTION = Minutes(15)
    /\ WORK_HOURS = 8 * 3600

\* C2 amended: when the summary reports clocked in, the recommended clock-out
\* is the last out-instant of the timetable (the provisional one) plus
\* timeRemaining, and it is None otherwise; for in=[09:00,13:00], out=[12:00],
\* serverNow=14:10, resolution 15 min, target 8h the provisional out-instant
\* is 14:30, timeRemaining is 3:30 and the recommendation is 18:00.
C2_RecommendedFromLastOut ==
    Summarized =>
        /\ time_to_out = IF is_in THEN Some(LastRow.out + time_remaining) ELSE None
        /\ C2_ExampleSnapshot =>
              /\ is_in
              /\ LastRow.out = DT(0, 14, 30, 0)
              /\ time_remaining = 3 * 3600 + 30 * 60
              /\ time_to_out = Some(DT(0, 18, 0, 0))

C2_Witness ==
    /\ pc = "prompt"
    /\ C2_ExampleSnapshot
    /\ time_to_out = Some(DT(0, 18, 0, 0))

\* the target handed to handle_auto by the command of this iteration
AutoTarget == IF command = "auto" THEN time_to_out ELSE time_next_out

\* C3: `auto` or `next` with delta = target - now <= 0 makes no call to the
\* scheduler (and fails with InvalidSchedule).
C3_NoScheduleUnlessFuture ==
    (/\ pc \in {"dispatched", "raised"}
     /\ command \in {"auto", "next"}
     /\ Chronological
     /\ is_in
     /\ AutoTarget[1] - server_time <= 0) => scheduler_calls = <<>>

\* what round-half-up to the multiple of the resolution gives, the carry into
\* the hour (and the day) included
RoundHalfUp(t, res) ==
    DT(Day(t), Hour(t), 0, 0) + HalfUpRound(Minute(t), res \div 60) * res

\* C4: round_datetime returns the nearest multiple of the resolution and the
\* larger one on an exact half (round-half-up).
C4_RoundsHalfUp ==
    (rpc \in {"once", "twice"} /\ datetime_adj # ValueError) =>
        datetime_adj = RoundHalfUp(time_date, time_resolution)

\* C5: round_datetime is total: it returns an instant for every instant and
\* resolution and never raises.
C5_RoundTotal ==
    rpc \in {"once", "twice"} => datetime_adj # ValueError

\* C6: round_datetime is idempotent: rounding a rounded instant returns it.
C6_RoundIdempotent ==
    (rpc = "twice" /\ datetime_adj # ValueError) => datetime_adj2 = datetime_adj

\* the smallest instant of the resolution grid strictly after t
NextBoundary(t, res) == ((t \div res) + 1) * res

\* C7: for an open trailing interval the provisional out-instant is the next
\* resolution boundary strictly after server-now.
C7_ProvisionalIsNextBoundary ==
    (Summarized /\ Chronological /\ OpenInterval) =>
        LastRow.out = NextBoundary(server_time, HOURS_RESOLUTION)

\* C8: the provisional interval of an open snapshot whose in-instant is not
\* after server-now lasts at least one full resolution, never zero.
C8_ProvisionalAtLeastOneTick ==
    (Summarized /\ Chronological /\ OpenInterval) =>
        LastRow.duration >= HOURS_RESOLUTION

RECURSIVE WorkedUpTo(_)
\* the rounded time worked in the first n intervals of the snapshot, the open
\* one counted up to the provisional out-instant
WorkedUpTo(n) ==
    IF n = 0 THEN 0
    ELSE WorkedUpTo(n - 1)
         + (IF n <= Len(times_out)
            THEN round_datetime(times_out[n], HOURS_RESOLUTION)
            ELSE round_datetime(server_time + HOURS_RESOLUTION, HOURS_RESOLUTION))
         - round_datetime(times_in[n], HOURS_RESOLUTION)

\* C9: timeRemaining is the work target minus the durations of all intervals,
\* the provisional one included, negative when in overtime (not clamped).
C9_TimeRemaining ==
    Summarized => time_remaining = WORK_HOURS - WorkedUpTo(Len(times_in))

C9_Witness ==
    /\ pc = "prompt"
    /\ OpenInterval
    /\ Len(times_in) = 2
    /\ time_remaining < 0

\* the page of this iteration parsed to a snapshot without clock-ins
EmptySnapshotParsed ==
    /\ parse_response(response).status = "ok"
    /\ parse_response(response).times_in = <<>>

\* C10: with no clock-in events the timetable is empty, the summary is
\* (false, work target, None), the next-interval instant is None, and the
\* iteration reaches the prompt without a failure (given a page that holds
\* the ids parse_ids reads).
C10_EmptySnapshot ==
    /\ (Summarized /\ times_in = <<>>) =>
          /\ times_dict = <<>>
          /\ ~is_in
          /\ time_remaining = WORK_HOURS
          /\ time_to_out = None
          /\ time_next_out = None
    /\ (pc = "raised" /\ EmptySnapshotParsed) =>
          (raised = "AttributeError" /\ ~response.ids)

C10_Witness ==
    /\ pc = "prompt"
    /\ times_in = <<>>
    /\ server_time = DT(0, 23, 40, 0)
    /\ times_dict = <<>>
    /\ time_remaining = WORK_HOURS

-----------------------------------------------------------------------------
(* Commands and the calls of an iteration *)

\* the calls made after the prompt of this iteration
RECURSIVE AfterInput(_)
AfterInput(sq) ==
    IF sq = <<>> THEN <<>>
    ELSE IF sq[1].call = "input" THEN Tail(sq)
    ELSE AfterInput(Tail(sq))

\* C11: the command `in` given while the summary reports the user clocked in
\* is rejected: no clock-intent request and no scheduler request is posted,
\* nothing is raised, and the loop goes on to its next iteration.
C11_InRejectedWhenClockedIn ==
    (command = "in" /\ is_in) =>
        /\ pc = "dispatched"
        /\ clock_calls = <<>>
        /\ scheduler_calls = <<>>
        /\ AfterInput(steps) = <<>>
        /\ raised = ""

C11_Witness ==
    /\ pc = "dispatched"
    /\ command = "in"
    /\ is_in
    /\ OpenInterval
    /\ clock_calls = <<>>

\* C12: whenever the latest snapshot has no open interval (the user is not
\* clocked in), the commands `out`, `auto` and `next` are rejected: no OUT
\* clock-intent and no scheduler request is posted in that iteration.
C12_RejectedWhenNotClockedIn ==
    (command \in {"out", "auto", "next"} /\ Chronological /\ ~OpenInterval) =>
        /\ clock_calls = <<>>
        /\ scheduler_calls = <<>>

\* step i of this iteration is a parse_response call that ended with `result`
ParseStep(i, result) ==
    /\ steps[i].call = "parse_response"
    /\ steps[i].result = result

\* C13: in one iteration a SessionExpired of the first parse is followed by
\* exactly one login_session and exactly one further parse_response; a
\* SessionExpired of that second parse is not retried and leaves
\* main_withlogin; any other failure of a parse (ParseFailure included) is
\* followed by no login and leaves main_withlogin.
C13_OneReloginOneReparse ==
    LET n == Len(steps)
    IN  /\ \A i \in 1..n :
             ParseStep(i, SessionExpired) =>
                \/ /\ i = 2
                   /\ IF n = 2 THEN pc = "relogin"
                      ELSE /\ steps[3].call = "login_session"
                           /\ n >= 4 => steps[4].call = "parse_response"
                \/ /\ i = 4
                   /\ n = 4
                   /\ pc = "raised"
                   /\ raised = SessionExpired
        /\ \A i \in 1..n :
             steps[i].call = "login_session" =>
                \/ i = 3 /\ ParseStep(2, SessionExpired)
                \/ i > 1 /\ steps[i - 1].call = "input" /\ steps[i - 1].result = "r"
        /\ \A i \in 1..n :
             (steps[i].call = "parse_response"
                 /\ steps[i].result \notin {"ok", SessionExpired}) =>
                /\ i = n
                /\ pc = "raised"
                /\ raised = steps[i].result
        /\ Cardinality({i \in 1..n : steps[i].call = "parse_response"}) <= 2

\* the second parse of an iteration raised SessionExpired
C13_Witness ==
    /\ pc = "raised"
    /\ raised = SessionExpired
    /\ Len(steps) = 4
    /\ ParseStep(2, SessionExpired)
    /\ steps[3].call = "login_session"
    /\ ParseStep(4, SessionExpired)
    /\ session = logins

\* main_withlogin is over: it returned or an exception left it
LoopEnded == pc \in {"done", "raised"}

\* C14 as stated: the loop ends only through a command token outside
\* {in, out, auto, next, r}; no error (a parse failure, a second session
\* expiry, a scheduler error) ends it.
C14_OnlyCommandEndsLoop ==
    (LoopEnded /\ raised \in {"", ParseFailure, SessionExpired, "HTTPError"}) =>
        (command = "exit" /\ raised = "")

\* C14: main_withlogin returns only through a command token outside
\* {in, out, auto, next, r}, and that last transition makes no login,
\* refresh, clock-intent or scheduler call; an error never leads to the
\* return, it ends the loop by leaving main_withlogin as an exception.
C14_ReturnsOnlyOnCommand ==
    /\ pc = "done" =>
          /\ command = "exit"
          /\ raised = ""
          /\ steps # <<>>
          /\ steps[Len(steps)] = Step("input", "exit", session)
          /\ clock_calls = <<>>
          /\ scheduler_calls = <<>>
          /\ snapshot_age = "parsed"
          /\ session = logins
    /\ raised # "" <=> pc = "raised"
    /\ pc = "raised" => command \in {"", "auto", "next"}

C14_Witness ==
    /\ pc = "done"
    /\ command = "exit"
    /\ logins = 2
    /\ times_in # <<>>
    /\ AfterInput(steps) = <<>>

\* the last call of this iteration is the parse of the page held in response
JustParsed ==
    /\ steps # <<>>
    /\ steps[Len(steps)].call = "parse_response"

\* C15: parse_response of a page without the activity container fails with
\* SessionExpired when the page holds the login-form marker, never with
\* ParseFailure or another error, and with ParseFailure when it holds neither.
C15_LoginFormIsSessionExpired ==
    (JustParsed /\ ~response.empty /\ response.activities = "absent") =>
        steps[Len(steps)].result =
            IF response.login # "absent" THEN SessionExpired ELSE ParseFailure

\* C16: parse_response of the empty text fails with the classified failure
\* EmptyResponse: it returns nothing the loop takes for a snapshot and causes
\* no unclassified error in the caller.
C16_EmptyPageIsEmptyResponse ==
    (JustParsed /\ response.empty) =>
        /\ parse_response(response).status = "EmptyResponse"
        /\ pc = "raised"
        /\ raised = "EmptyResponse"

\* C17: every snapshot parse_response returns has as many clock-outs as
\* clock-ins or one fewer, whatever mix of In and Out entries the activity
\* list holds; calculate_time_table is never given more outs than ins.
C17_SnapshotLengths ==
    (JustParsed /\ steps[Len(steps)].result = "ok") =>
        /\ Len(times_out) <= Len(times_in)
        /\ Len(times_out) >= Len(times_in) - 1

\* C18: in the printed timetable an interval is shown in parentheses exactly
\* when it is the provisional interval, so the printing of the last interval
\* agrees with the is_in flag of the summary, also when the last out-instant
\* equals the server time.
C18_DisplayAgreesWithSummary ==
    (Summarized /\ times_dict # <<>> /\ Chronological) =>
        (displayed[Len(displayed)] <=> is_in)

\* this step posts a clock-intent or a scheduler request
Posted ==
    \/ clock_calls' # <<>> /\ clock_calls' # clock_calls
    \/ scheduler_calls' # <<>> /\ scheduler_calls' # scheduler_calls

\* the locals the handlers decide on are the ones computed from the page
\* held in response
DecidedFromPage ==
    LET p == parse_response(response)
    IN  /\ p.status = "ok"
        /\ times_in = p.times_in
        /\ times_out = p.times_out
        /\ server_time = p.server_time
        /\ times_dict = calculate_time_table(times_in, times_out, server_time,
                                             HOURS_RESOLUTION).rows
        /\ is_in = calculate_summary(times_dict, server_time, WORK_HOURS).is_in

\* C19: every clock-intent or scheduler request is decided from a snapshot
\* obtained by a refresh (or re-login) and a successful parse made after the
\* previous request: between two posted requests there is at least one
\* refresh and one successful parse, and one iteration posts at most one.
C19_ActionsOnFreshSnapshot ==
    [][Posted =>
          /\ snapshot_age = "parsed"
          /\ DecidedFromPage
          /\ steps[1].call = "refresh_session"
          /\ steps[Len(steps)] = Step("parse_response", "ok", session)
          /\ Len(clock_calls') + Len(scheduler_calls') = 1]_vars

\* a request posted on the snapshot of a re-login
C19_Witness ==
    /\ pc = "dispatched"
    /\ snapshot_age = "used"
    /\ clock_calls # <<>>
    /\ Len(steps) = 6
    /\ steps[3].call = "login_session"
    /\ steps[4] = Step("parse_response", "ok", session)

\* C20: the command `r` makes exactly one login and no parse, clock-intent
\* or scheduler call before the next iteration, and the next step of the
\* loop is a refresh made with the session that login returned.
C20_RefreshCommand ==
    /\ [](command = "r" =>
            /\ pc = "dispatched"
            /\ AfterInput(steps) = <<Step("login_session", "", logins)>>
            /\ session = logins
            /\ clock_calls = <<>>
            /\ scheduler_calls = <<>>
            /\ raised = "")
    /\ [][command = "r" =>
            /\ pc' = "refresh"
            /\ steps' = <<>>
            /\ session' = session
            /\ logins' = logins]_vars
    /\ [][pc = "refresh" =>
            /\ pc' = "parse"
            /\ steps' = <<Step("refresh_session", "", logins)>>
            /\ logins' = logins]_vars

C20_Witness ==
    /\ pc = "dispatched"
    /\ command = "r"
    /\ logins = 2
    /\ session = 2
    /\ Len(steps) = 4

\* the command of this iteration was accepted by handle_in / handle_out
AcceptedIn == command = "in" /\ ~is_in
AcceptedOut == command = "out" /\ is_in

\* C21: an accepted `in` or `out` command posts exactly one clock-intent
\* request, IN for `in` and OUT for `out`; success is reported exactly when
\* the response holds the success marker; a failed request is not posted
\* again in the iteration.
C21_OneIntentNoRetry ==
    (AcceptedIn \/ AcceptedOut) =>
        /\ pc = "dispatched"
        /\ Len(clock_calls) = 1
        /\ clock_calls[1].sEvent = (IF command = "in" THEN "IN" ELSE "OUT")
        /\ clock_calls[1].printed = "clocked" <=> clock_calls[1].marker
        /\ clock_calls[1].printed \in {"clocked", "error"}
        /\ AfterInput(steps) = <<Step("clock_inout", command, session)>>
        /\ scheduler_calls = <<>>
        /\ raised = ""

\* an accepted `out` whose request failed
C21_Witness ==
    /\ pc = "dispatched"
    /\ AcceptedOut
    /\ OpenInterval
    /\ Len(clock_calls) = 1
    /\ clock_calls[1].sEvent = "OUT"
    /\ ~clock_calls[1].marker
    /\ clock_calls[1].printed = "error"

\* the handle of the latest login made before step i of this iteration
LatestLoginAt(i) ==
    logins - Cardinality({j \in (i + 1)..Len(steps) :
                              steps[j].call = "login_session"})

\* C22: after a re-login on SessionExpired or an `r` command every refresh
\* and every clock-intent request uses the session returned by the latest
\* login, never a replaced one; the session variable changes only at a
\* login and is left unchanged by the parse and by in, out, auto and next.
C22_SessionFrame ==
    /\ [](/\ session = logins
          /\ \A i \in 1..Len(steps) :
                steps[i].call \in {"refresh_session", "clock_inout"} =>
                    steps[i].session = LatestLoginAt(i)
          /\ \A k \in 1..Len(clock_calls) : clock_calls[k].session = logins)
    /\ [][session' # session =>
            /\ logins' = logins + 1
            /\ session' = logins'
            /\ pc \in {"login", "relogin"} \/ command' = "r"]_vars
    /\ [][(pc \in {"parse", "reparse", "compute"}
             \/ command' \in {"in", "out", "auto", "next"}) =>
            session' = session]_vars

\* a clock-intent posted with the third session: after an `r` command in an
\* earlier iteration and a re-login in this one
C22_Witness ==
    /\ pc = "dispatched"
    /\ logins = 3
    /\ Len(steps) = 6
    /\ steps[1] = Step("refresh_session", "", 2)
    /\ steps[3] = Step("login_session", "", 3)
    /\ clock_calls # <<>>
    /\ clock_calls[1].session = 3

\* the durations of the rows before the last one
EarlierDurations == SumDurations(SubSeq(times_dict, 1, Len(times_dict) - 1))

\* C23: whenever the summary reports clocked in, clocking out at the
\* recommended instant completes exactly the work target: the durations of
\* the earlier intervals plus (time_to_out - last rounded in-instant) equal
\* WORK_HOURS, for every snapshot, overtime (time_remaining < 0) included.
C23_RecommendedCompletesTarget ==
    (Summarized /\ is_in) =>
        /\ times_dict # <<>>
        /\ time_to_out # None
        /\ EarlierDurations + (time_to_out[1] - LastRow.in) = WORK_HOURS
        /\ LastRow.in = round_datetime(times_in[Len(times_in)], HOURS_RESOLUTION)

\* clocked in during a second interval, already in overtime
C23_Witness ==
    /\ pc = "prompt"
    /\ is_in
    /\ Chronological
    /\ OpenInterval
    /\ Len(times_dict) = 2
    /\ time_remaining < 0
    /\ time_to_out # None
    /\ time_to_out[1] < LastRow.out

\* C24: when two invocations of lambda_handler interleave and both succeed,
\* the rule scheduleClockOut ends with a schedule expression and a target
\* input that come from the same request: no user's key is left scheduled
\* at the time of another request.
C24_RuleAndTargetFromSameRequest ==
    (/\ \A p \in Invocations : invocation[p].result = "200"
     /\ \A p, q \in Invocations :
            p # q => /\ invocation[p].body.UserId # invocation[q].body.UserId
                     /\ invocation[p].body.ScheduleTime
                            # invocation[q].body.ScheduleTime) =>
        \E p \in Invocations :
            /\ rule = Some(make_cronstr(invocation[p].schedule_time))
            /\ rule_target = Some(TargetEvent(invocation[p].event,
                                                invocation[p].body))

\* the instant or duration is a whole number of resolution steps (zero
\* seconds included)
OnGrid(x) == x % HOURS_RESOLUTION = 0

\* C25: for a resolution that divides 60 minutes and a work target that is
\* a multiple of it, every in-instant and out-instant of the timetable, the
\* provisional one included, lies on the resolution grid with zero seconds,
\* every committed interval whose raw out is not before its raw in has a
\* non-negative duration, and every duration and the remaining time are
\* multiples of the resolution.
C25_GridInvariants ==
    (/\ Summarized
     /\ 3600 % HOURS_RESOLUTION = 0
     /\ WORK_HOURS % HOURS_RESOLUTION = 0) =>
        /\ \A i \in 1..Len(times_dict) :
              /\ OnGrid(times_dict[i].in)
              /\ OnGrid(times_dict[i].out)
              /\ Second(times_dict[i].in) = 0
              /\ Second(times_dict[i].out) = 0
              /\ OnGrid(times_dict[i].duration)
              /\ times_dict[i].duration = times_dict[i].out - times_dict[i].in
              /\ (i <= Len(times_out) /\ times_in[i] <= times_out[i]) =>
                    times_dict[i].duration >= 0
        /\ OnGrid(time_remaining)

\* a committed interval whose instants were both moved by the rounding,
\* followed by an open one
C25_Witness ==
    /\ pc = "prompt"
    /\ HOURS_RESOLUTION = Minutes(30)
    /\ Chronological
    /\ OpenInterval
    /\ Len(times_dict) = 2
    /\ times_dict[1].in > times_in[1]
    /\ times_dict[1].out < times_out[1]
    /\ times_dict[2].out > server_time

=============================================================================
